---- MODULE Spec2Model ----
(***************************************************************************)
(* Model of src/scheduler.py: GracefulShutdown (a lock-protected shutdown  *)
(* flag set from a signal handler) and Scheduler (a daily job registered   *)
(* with the `schedule` library, polled by a blocking loop).                *)
(*                                                                         *)
(* Time is counted in ticks of 15 seconds, so time.sleep(30) is 2 ticks.   *)
(* The calendar day is scaled down to DayLen ticks (a whole number of poll *)
(* intervals, as 86400 s is of 30 s); a time-of-day is a tick in           *)
(* 0..DayLen-1.                                                            *)
(*                                                                         *)
(* Python runs a signal handler on the main thread, on top of whatever     *)
(* frame the main thread was executing, and handlers nest.  hstack is the  *)
(* stack of handler frames; the main-thread code below it is suspended     *)
(* until the stack is empty again.  threading.Lock is not reentrant.       *)
(***************************************************************************)
EXTENDS Integers, Sequences, FiniteSets

\* ---------------------------------------------------------------- scale
\* time.sleep(30): the poll interval, in ticks
PollInterval == 2
\* every().day: one calendar day, in ticks (scaled)
DayLen == 6

\* ---------------------------------------------------------------- bounds
\* the clock stops being advanced after this many days
MaxDays == 2
\* signal handlers nested on the main thread at one time
MaxNest == 2
\* calls of set_daily_task in one behaviour
MaxRegs == 2

MaxTime == MaxDays * DayLen

\* ---------------------------------------------------------------- inputs
\* the callables a caller may register (None is 0)
None == 0
Tasks == {1, 2}
\* valid HH:MM values given to the constructor, as ticks of the day (the
\* latest, 23:59, is more than a poll interval before midnight)
ScheduleTimes == {1, 3}
\* a schedule_time that is not a time of day ("25:00", "soon", "")
Malformed == -1
\* how long one call of the task may take, in ticks
TaskDurations == {0, 1, DayLen - 1, DayLen + 1}
\* how a call of the task may end: normal return, an exception derived from
\* Exception, or one derived only from BaseException (SystemExit,
\* KeyboardInterrupt, GeneratorExit)
Outcomes == {"return", "Exception", "BaseException"}
\* the log records of set_daily_task and _safe_run_task: the job is
\* registered, a task starts, it completed, it failed
LogRecords == {"registered", "starting", "completed", "failed"}

VARIABLES
    now,                 \* datetime.now(), in ticks
    schedule_time,       \* Scheduler.schedule_time
    task_callback,       \* Scheduler._task_callback
    running,             \* Scheduler._running
    jobs,                \* schedule.jobs: the jobs registered with the library
    shutdown_requested,  \* GracefulShutdown.shutdown_requested
    lock,                \* GracefulShutdown._lock: -1 free, 0 held by the main
                         \* frame, k held by handler frame k
    hstack,              \* signal-handler frames on the main thread, each
                         \* the place its handler is at
    pc,                  \* where the main thread's own code is
    ctx,                 \* who called _safe_run_task: "immediate" or "loop"
    pending,             \* run_pending: the runnable jobs not yet run
    cur,                 \* run_pending: the job being run (0: none)
    notices,             \* how many shutdown notices were logged
    active,              \* task invocations started and not yet ended
    hist                 \* observations of the run so far (history only)

vars == <<now, schedule_time, task_callback, running, jobs, shutdown_requested,
          lock, hstack, pc, ctx, pending, cur, notices, active, hist>>

\* ---------------------------------------------------------------- time
DayOf(t) == t \div DayLen
TimeOfDay(t) == t % DayLen

\* schedule.Job._schedule_next_run for every().day.at(at): the first instant
\* strictly after t whose time of day is `at` (today if it has not passed,
\* otherwise tomorrow)
ScheduleNextRunDrift(t, at) == t + DayLen
ScheduleNextRunTomorrow(t, at) == (DayOf(t) + 1) * DayLen + at
ScheduleNextRun(t, at) ==
    IF TimeOfDay(t) < at
    THEN DayOf(t) * DayLen + at
    ELSE (DayOf(t) + 1) * DayLen + at

\* schedule.Job.should_run: datetime.now() >= self.next_run
ShouldRun(job, t) == t >= job.next_run

\* sorted(...) of run_pending: stable insertion of job index i by next_run
RECURSIVE Insert(_, _, _)
Insert(s, i, js) ==
    IF s = <<>> THEN <<i>>
    ELSE IF js[i].next_run < js[Head(s)].next_run
         THEN <<i>> \o s
         ELSE <<Head(s)>> \o Insert(Tail(s), i, js)

RECURSIVE SortedFrom(_, _, _)
SortedFrom(k, js, t) ==
    IF k = 0 THEN <<>>
    ELSE LET rest == SortedFrom(k - 1, js, t)
         IN  IF ShouldRun(js[k], t) THEN Insert(rest, k, js) ELSE rest

\* schedule.run_pending: the jobs that are due, in the order they are run
Runnable(js, t) == SortedFrom(Len(js), js, t)

\* the earliest pending trigger, Scheduler._get_next_run_time (-1: "未设置")
GetNextRunTime ==
    IF jobs = <<>> THEN -1
    ELSE CHOOSE m \in {jobs[i].next_run : i \in 1 .. Len(jobs)} :
            \A i \in 1 .. Len(jobs) : m <= jobs[i].next_run

\* ---------------------------------------------------------------- helpers
Cap(n, m) == IF n < m THEN n ELSE m

\* the main thread is inside Scheduler.run (past its first statement)
InRun ==
    \/ pc \in {"loop_running", "ss_acquire", "ss_read", "run_pending",
               "dispatch", "sleep"}
    \/ pc \in {"safe_run", "in_task"} /\ ctx = "loop"

\* the main thread's own code may take a step
MainRuns == hstack = <<>>

Init ==
    /\ now \in 0 .. DayLen - 1
    /\ schedule_time \in ScheduleTimes \cup {Malformed}
    /\ task_callback = None
    /\ running = FALSE
    /\ jobs = <<>>
    /\ shutdown_requested = FALSE
    /\ lock = -1
    /\ hstack = <<>>
    /\ pc = "idle"
    /\ ctx = "none"
    /\ pending = <<>>
    /\ cur = 0
    /\ notices = 0
    /\ active = 0
    /\ hist = [pollsAfterShutdown |-> 0, startedAt |-> -1, overran |-> FALSE,
               lastFireDay |-> -1, askedImmediate |-> FALSE,
               immediateStarts |-> 0, lastLog |-> "none",
               atEntry |-> "clear"]

\* the values the fields of the two objects, and the main thread, take
TypeOK ==
    /\ now \in 0 .. MaxTime
    /\ schedule_time \in ScheduleTimes \cup {Malformed}
    /\ task_callback \in Tasks \cup {None}
    /\ running \in BOOLEAN
    /\ jobs \in Seq([next_run : 0 .. MaxTime + DayLen])
    /\ Len(jobs) <= MaxRegs
    /\ shutdown_requested \in BOOLEAN
    /\ lock \in -1 .. MaxNest
    /\ hstack \in Seq({"h_acquire", "h_locked"})
    /\ Len(hstack) <= MaxNest
    /\ pc \in {"idle", "safe_run", "in_task", "run_enter", "loop_running",
               "ss_acquire", "ss_read", "run_pending", "dispatch", "sleep",
               "raised", "rejected"}
    /\ ctx \in {"none", "immediate", "loop"}
    /\ pending \in Seq(1 .. MaxRegs)
    /\ cur \in 0 .. MaxRegs
    /\ notices \in Nat
    /\ active \in Nat
    /\ hist \in [pollsAfterShutdown : 0 .. 2, startedAt : -1 .. MaxTime,
                  overran : BOOLEAN, lastFireDay : -1 .. MaxDays,
                  askedImmediate : BOOLEAN, immediateStarts : 0 .. 2,
                  lastLog : LogRecords \cup {"none"},
                  atEntry : {"clear", "stop", "shut"}]

\* ------------------------------------------------- GracefulShutdown
\* the handler frame on top of the main thread's stack
Top == hstack[Len(hstack)]
SetTop(p) == [hstack EXCEPT ![Len(hstack)] = p]

\* SIGINT or SIGTERM is delivered (both are bound to _signal_handler, which
\* uses signum in the text of its notice only): Python pushes the handler on
\* top of whatever the main thread is executing, another handler included
Signal ==
    /\ Len(hstack) < MaxNest
    /\ pc \notin {"raised", "rejected"}
    /\ hstack' = Append(hstack, "h_acquire")
    /\ UNCHANGED <<now, schedule_time, task_callback, running, jobs,
                   shutdown_requested, lock, pc, ctx, pending, cur, notices, active, hist>>

\* _signal_handler, `with self._lock:` entered: blocks while the lock is held
HandlerAcquire ==
    /\ hstack # <<>>
    /\ Top = "h_acquire"
    /\ lock = -1
    /\ lock' = Len(hstack)
    /\ hstack' = SetTop("h_locked")
    /\ UNCHANGED <<now, schedule_time, task_callback, running, jobs,
                   shutdown_requested, pc, ctx, pending, cur, notices,
                   active, hist>>

\* `if not self.shutdown_requested:`
NeedsNoticeAlways(requested) == TRUE
NeedsNotice(requested) == ~requested

\* _signal_handler, the body of the with block and its exit: the flag is
\* tested and, when unset, the notice is logged and the flag set; the lock
\* is released and the handler returns to the frame it interrupted
HandlerBody ==
    /\ hstack # <<>>
    /\ Top = "h_locked"
    /\ IF NeedsNotice(shutdown_requested)
       THEN /\ notices' = notices + 1
            /\ shutdown_requested' = TRUE
       ELSE UNCHANGED <<notices, shutdown_requested>>
    /\ lock' = -1
    /\ hstack' = SubSeq(hstack, 1, Len(hstack) - 1)
    /\ UNCHANGED <<now, schedule_time, task_callback, running, jobs,
                   pc, ctx, pending, cur, active, hist>>

\* should_shutdown: what the property returns for the flag it reads
ShouldShutdownStale(requested) == FALSE
ShouldShutdown(requested) == requested

\* ------------------------------------------------- Scheduler
\* stop(), from the task or from another thread, at any time; what is
\* recorded of a call made after run was called and before its line 86
NoteStop(h) ==
    IF pc = "run_enter" /\ h.atEntry = "clear"
    THEN [h EXCEPT !.atEntry = "stop"] ELSE h
\* the loop begins the poll of its first iteration, or run returns: the
\* record of the early stop() is dropped
NoteIteration(h) ==
    IF h.atEntry = "stop" THEN [h EXCEPT !.atEntry = "clear"] ELSE h
\* run is called: whether the shutdown flag is already set is recorded
NoteEntry(h, requested) ==
    [h EXCEPT !.atEntry = IF requested THEN "shut" ELSE "clear"]

StopInterrupting ==
    /\ running' = FALSE
    /\ pc' = IF pc = "in_task" /\ ctx = "loop" THEN "loop_running" ELSE pc
    /\ hist' = NoteStop(hist)
    /\ UNCHANGED <<now, schedule_time, task_callback, jobs,
                   shutdown_requested, lock, hstack, ctx, pending, cur,
                   notices, active>>
Stop ==
    /\ running' = FALSE
    /\ hist' = NoteStop(hist)
    /\ UNCHANGED <<now, schedule_time, task_callback, jobs,
                   shutdown_requested, lock, hstack, pc, ctx, pending, cur,
                   notices, active>>

\* every().day.at(schedule_time).do(_safe_run_task): the job the library
\* appends to its list; its job_func is the bound method _safe_run_task
NewJob(t, at) == [next_run |-> ScheduleNextRun(t, at)]

\* logger.info / logger.exception of one of the records: the log's last
\* record of these kinds
Logged(h, rec) == [h EXCEPT !.lastLog = rec]

\* a call of set_daily_task begins: what is recorded of its argument
NoteCall(h, run_immediately) ==
    [h EXCEPT !.askedImmediate = run_immediately, !.immediateStarts = 0]

\* Job.at(time_str), called at line 66: the library accepts a time of day
\* and raises ScheduleValueError for any other string
ValidTime(at) == at \in 0 .. DayLen - 1

\* set_daily_task once Job.at has accepted the time: the job is appended,
\* the registration logged and, when run_now, _safe_run_task called
RegisterAndRun(task, run_now, asked) ==
    /\ task_callback' = task
    /\ jobs' = Append(jobs, NewJob(now, schedule_time))
    /\ IF run_now
       THEN pc' = "safe_run" /\ ctx' = "immediate"
       ELSE pc' = pc /\ ctx' = ctx
    /\ hist' = Logged(NoteCall(hist, asked), "registered")
    /\ UNCHANGED <<now, schedule_time, running, shutdown_requested, lock,
                   hstack, pending, cur, notices, active>>

\* set_daily_task when Job.at raises: the callback has been stored (line
\* 65), nothing else is done and the exception goes to the caller
Rejected(task, asked) ==
    /\ task_callback' = task
    /\ pc' = "rejected"
    /\ hist' = NoteCall(hist, asked)
    /\ UNCHANGED <<now, schedule_time, running, jobs, shutdown_requested,
                   lock, hstack, ctx, pending, cur, notices, active>>

\* set_daily_task(task, run_immediately)
SetDailyTaskAlwaysRuns(task, run_immediately) ==
    /\ MainRuns
    /\ pc = "idle"
    /\ Len(jobs) < MaxRegs
    /\ IF ValidTime(schedule_time)
       THEN RegisterAndRun(task, TRUE, run_immediately)
       ELSE Rejected(task, run_immediately)
SetDailyTaskUnchecked(task, run_immediately) ==
    /\ MainRuns
    /\ pc = "idle"
    /\ Len(jobs) < MaxRegs
    /\ RegisterAndRun(task, run_immediately, run_immediately)
SetDailyTask(task, run_immediately) ==
    /\ MainRuns
    /\ pc = "idle"
    /\ Len(jobs) < MaxRegs
    /\ IF ValidTime(schedule_time)
       THEN RegisterAndRun(task, run_immediately, run_immediately)
       ELSE Rejected(task, run_immediately)

\* schedule.Job.run after job_func returned at time t: the job is
\* rescheduled from the time it is then
JobDone(js, k, t, at) ==
    [js EXCEPT ![k] = [next_run |-> ScheduleNextRun(t, at)]]

\* an invocation starts at time t: what is recorded of it, for a firing by
\* the loop and for an immediate run
NoteStart(h, t) ==
    IF ctx = "loop"
    THEN [h EXCEPT !.startedAt = t, !.lastFireDay = DayOf(t)]
    ELSE [h EXCEPT !.startedAt = t,
                   !.immediateStarts = Cap(@ + 1, 2)]

\* _safe_run_task up to the call of the task: the None test and the banner
SafeRunTask ==
    /\ MainRuns
    /\ pc = "safe_run"
    /\ IF task_callback = None
       THEN /\ active' = active
            /\ hist' = hist
            /\ IF ctx = "immediate"
               THEN pc' = "idle" /\ jobs' = jobs /\ cur' = cur
               ELSE /\ pc' = "dispatch"
                    /\ jobs' = JobDone(jobs, cur, now, schedule_time)
                    /\ cur' = 0
            /\ ctx' = "none"
       ELSE /\ active' = active + 1
            /\ hist' = Logged(NoteStart(hist, now), "starting")
            /\ pc' = "in_task"
            /\ UNCHANGED <<jobs, cur, ctx>>
    /\ UNCHANGED <<now, schedule_time, task_callback, running,
                   shutdown_requested, lock, hstack, pending, notices>>

\* `except Exception`: what the wrapper does not catch
Propagates(outcome) == outcome = "BaseException"

\* the record _safe_run_task logs when the task has ended, after the record
\* that was last: line 81 on return, line 83 in the except clause, none when
\* the exception is not caught
EndRecord(outcome, last) ==
    IF outcome = "return" THEN "completed"
    ELSE IF outcome = "Exception" THEN "failed"
    ELSE last

\* the invocation that started at s ends at t: it ran into the next
\* occurrence of the configured time of day, or beyond
Overran(s, t) == t >= ScheduleNextRun(s, schedule_time)

\* the task ends after d ticks; _safe_run_task logs and returns, or the
\* exception leaves it and, in the loop, run_pending and run as well
TaskEndAdvances(outcome, d) ==
    /\ MainRuns
    /\ pc = "in_task"
    /\ now + d <= MaxTime
    /\ now' = now + d
    /\ active' = active - 1
    /\ hist' = [hist EXCEPT !.startedAt = -1,
                            !.overran = @ \/ Overran(hist.startedAt, now + d),
                            !.lastLog = EndRecord(outcome, @)]
    /\ IF Propagates(outcome)
       THEN /\ pc' = "raised"
            /\ pending' = <<>>
            /\ jobs' = jobs
       ELSE /\ pending' = pending
            /\ IF ctx = "immediate"
               THEN /\ pc' = "idle"
                    /\ jobs' = JobDone(jobs, Len(jobs), now + d,
                                       schedule_time)
               ELSE /\ pc' = "dispatch"
                    /\ jobs' = JobDone(jobs, cur, now + d, schedule_time)
    /\ ctx' = "none"
    /\ cur' = 0
    /\ UNCHANGED <<schedule_time, task_callback, running,
                   shutdown_requested, lock, hstack, notices>>
TaskEnd(outcome, d) ==
    /\ MainRuns
    /\ pc = "in_task"
    /\ now + d <= MaxTime
    /\ now' = now + d
    /\ active' = active - 1
    /\ hist' = [hist EXCEPT !.startedAt = -1,
                            !.overran = @ \/ Overran(hist.startedAt, now + d),
                            !.lastLog = EndRecord(outcome, @)]
    /\ IF Propagates(outcome)
       THEN /\ pc' = "raised"
            /\ pending' = <<>>
            /\ jobs' = jobs
       ELSE /\ pending' = pending
            /\ IF ctx = "immediate"
               THEN pc' = "idle" /\ jobs' = jobs
               ELSE /\ pc' = "dispatch"
                    /\ jobs' = JobDone(jobs, cur, now + d, schedule_time)
    /\ ctx' = "none"
    /\ cur' = 0
    /\ UNCHANGED <<schedule_time, task_callback, running,
                   shutdown_requested, lock, hstack, notices>>

\* the caller calls run()
RunCall ==
    /\ MainRuns
    /\ pc = "idle"
    /\ pc' = "run_enter"
    /\ hist' = NoteEntry(hist, shutdown_requested)
    /\ UNCHANGED <<now, schedule_time, task_callback, running, jobs,
                   shutdown_requested, lock, hstack, ctx, pending, cur,
                   notices, active>>

\* run: self._running = True and the two log lines
RunStartKeepsFlag ==
    /\ MainRuns
    /\ pc = "run_enter"
    /\ running' = running
    /\ pc' = "loop_running"
    /\ UNCHANGED <<now, schedule_time, task_callback, jobs,
                   shutdown_requested, lock, hstack, ctx, pending, cur,
                   notices, active, hist>>
RunStartResets ==
    /\ MainRuns
    /\ pc = "run_enter"
    /\ running' = TRUE
    /\ shutdown_requested' = FALSE
    /\ pc' = "loop_running"
    /\ UNCHANGED <<now, schedule_time, task_callback, jobs,
                   lock, hstack, ctx, pending, cur,
                   notices, active, hist>>
RunStart ==
    /\ MainRuns
    /\ pc = "run_enter"
    /\ running' = TRUE
    /\ pc' = "loop_running"
    /\ UNCHANGED <<now, schedule_time, task_callback, jobs,
                   shutdown_requested, lock, hstack, ctx, pending, cur,
                   notices, active, hist>>

\* run: `while self._running and ...`, the left operand; when it is false
\* the loop ends, the stop line is logged and run returns
LoopRunning ==
    /\ MainRuns
    /\ pc = "loop_running"
    /\ pc' = IF running THEN "ss_acquire" ELSE "idle"
    /\ hist' = IF running THEN hist ELSE NoteIteration(hist)
    /\ UNCHANGED <<now, schedule_time, task_callback, running, jobs,
                   shutdown_requested, lock, hstack, ctx, pending, cur,
                   notices, active>>

\* should_shutdown: `with self._lock:` entered by the loop
ShouldShutdownAcquire ==
    /\ MainRuns
    /\ pc = "ss_acquire"
    /\ lock = -1
    /\ lock' = 0
    /\ pc' = "ss_read"
    /\ UNCHANGED <<now, schedule_time, task_callback, running, jobs,
                   shutdown_requested, hstack, ctx, pending, cur,
                   notices, active, hist>>

\* should_shutdown: the flag is read, the lock released, and the loop
\* condition decided: the body is entered or run returns
ShouldShutdownRead ==
    /\ MainRuns
    /\ pc = "ss_read"
    /\ lock' = -1
    /\ pc' = IF ShouldShutdown(shutdown_requested) THEN "idle"
                                                   ELSE "run_pending"
    /\ hist' = IF ShouldShutdown(shutdown_requested)
               THEN NoteIteration(hist) ELSE hist
    /\ UNCHANGED <<now, schedule_time, task_callback, running, jobs,
                   shutdown_requested, hstack, ctx, pending, cur,
                   notices, active>>

\* schedule.run_pending(): the due jobs are collected and sorted
RunPending ==
    /\ MainRuns
    /\ pc = "run_pending"
    /\ pending' = Runnable(jobs, now)
    /\ pc' = "dispatch"
    /\ hist' = [NoteIteration(hist) EXCEPT !.pollsAfterShutdown =
                    IF shutdown_requested THEN Cap(@ + 1, 2) ELSE @]
    /\ UNCHANGED <<now, schedule_time, task_callback, running, jobs,
                   shutdown_requested, lock, hstack, ctx, cur,
                   notices, active>>

\* run_pending: the next due job is run (job_func is _safe_run_task), or
\* none is left and run_pending returns
DispatchConcurrent ==
    /\ MainRuns
    /\ pc \in {"dispatch", "in_task"}
    /\ IF pending = <<>>
       THEN pc = "dispatch" /\ pc' = "sleep" /\ UNCHANGED <<pending, cur, ctx>>
       ELSE /\ cur' = Head(pending)
            /\ pending' = Tail(pending)
            /\ ctx' = "loop"
            /\ pc' = "safe_run"
    /\ UNCHANGED <<now, schedule_time, task_callback, running, jobs,
                   shutdown_requested, lock, hstack,
                   notices, active, hist>>
Dispatch ==
    /\ MainRuns
    /\ pc = "dispatch"
    /\ IF pending = <<>>
       THEN pc' = "sleep" /\ UNCHANGED <<pending, cur, ctx>>
       ELSE /\ cur' = Head(pending)
            /\ pending' = Tail(pending)
            /\ ctx' = "loop"
            /\ pc' = "safe_run"
    /\ UNCHANGED <<now, schedule_time, task_callback, running, jobs,
                   shutdown_requested, lock, hstack,
                   notices, active, hist>>

\* time.sleep(30), the heartbeat (a log line, no state) and back to the
\* loop condition
Sleep ==
    /\ MainRuns
    /\ pc = "sleep"
    /\ now + PollInterval <= MaxTime
    /\ now' = now + PollInterval
    /\ pc' = "loop_running"
    /\ UNCHANGED <<schedule_time, task_callback, running, jobs,
                   shutdown_requested, lock, hstack, ctx, pending, cur,
                   notices, active, hist>>

\* the steps of the signal handler whose frame is the k-th of the stack
Handler(k) == Len(hstack) = k /\ (HandlerAcquire \/ HandlerBody)

\* the steps the main thread's own code takes once it is inside a method
\* (every call of the task ends)
MainCode ==
    \/ SafeRunTask
    \/ \E o \in Outcomes, d \in TaskDurations : TaskEnd(o, d)
    \/ RunStart \/ LoopRunning \/ ShouldShutdownAcquire
    \/ ShouldShutdownRead \/ RunPending \/ Dispatch \/ Sleep

Next ==
    \/ Signal
    \/ HandlerAcquire
    \/ HandlerBody
    \/ Stop
    \/ \E task \in Tasks, ri \in BOOLEAN : SetDailyTask(task, ri)
    \/ SafeRunTask
    \/ \E o \in Outcomes, d \in TaskDurations : TaskEnd(o, d)
    \/ RunCall
    \/ RunStart
    \/ LoopRunning
    \/ ShouldShutdownAcquire
    \/ ShouldShutdownRead
    \/ RunPending
    \/ Dispatch
    \/ Sleep

Spec == Init /\ [][Next]_vars

\* the interpreter keeps executing the main thread: handlers are called only
\* between two instructions of the code they interrupt, so the interrupted
\* code, a handler or the method below, goes on whenever it is again and
\* again able to, and signals arriving for ever do not starve it
FairSpec ==
    /\ Init /\ [][Next]_vars
    /\ \A k \in 1 .. MaxNest : SF_vars(Handler(k))
    /\ SF_vars(MainCode)

\* ------------------------------------------------------------------ claims
\* a scheduled firing starts: the loop's call of _safe_run_task logs its banner
LoopTaskStarts == pc = "safe_run" /\ ctx = "loop" /\ pc' = "in_task"
\* a scheduled firing ends with the job rescheduled
LoopTaskDone == pc = "in_task" /\ ctx = "loop" /\ pc' = "dispatch"
\* a signal has been delivered: its handler is on the stack or has returned
SignalSeen == hstack # <<>> \/ shutdown_requested
\* the clock of the model has reached its bound
Horizon == pc = "sleep" /\ now + PollInterval > MaxTime
\* a handler waits for a lock held by a frame it interrupted
SelfDeadlock == hstack # <<>> /\ Top = "h_acquire" /\ lock # -1

\* C1 (as claimed): once the shutdown flag is true, the loop starts no task
\* invocation
C1_NoStartAfterShutdown ==
    [][LoopTaskStarts => ~shutdown_requested]_vars

\* C1 (amended): once the shutdown flag is true, run begins at most one more
\* poll of the schedule (the iteration whose condition had read the flag
\* before it was set); task invocations of the loop start only inside a poll
C1_AtMostOnePollAfterShutdown ==
    hist.pollsAfterShutdown <= 1

\* a scheduled task runs in a poll that began after the flag was set
C1_Witness ==
    hist.pollsAfterShutdown = 1 /\ pc = "in_task" /\ ctx = "loop"

\* C2: a started task invocation is never interrupted by stop() or by a
\* signal: while it is in progress the main thread is inside the task (run
\* has not returned and the loop is not at its condition), it ends only by
\* the task's own step, and stop() and the handler leave the main thread's
\* position and the invocation alone
C2_TaskNeverInterrupted ==
    /\ [](active > 0 => pc = "in_task")
    /\ [][/\ (active' < active => pc = "in_task" /\ hstack = <<>>)
          /\ (running /\ ~running' => UNCHANGED <<pc, ctx, active, jobs>>)
          /\ (hstack' # hstack =>
                UNCHANGED <<pc, ctx, active, jobs, running>>)]_vars

\* a scheduled task is in progress after stop() was called and a signal was
\* handled during it
C2_Witness ==
    /\ pc = "in_task" /\ ctx = "loop" /\ active = 1
    /\ ~running /\ shutdown_requested /\ hstack = <<>>

\* C3 (as claimed): a signal delivered while run is executing makes run
\* return normally
C3_SignalEndsRun ==
    (SignalSeen /\ InRun) ~> (pc = "idle" \/ Horizon)

\* C4 (as claimed): stop() called while run is executing makes run return
C4_StopEndsRun ==
    (InRun /\ ~running) ~> (pc = "idle" \/ Horizon)

\* C5 (as claimed): the handler always gets the lock: it never waits for a
\* lock held by the frame it interrupted
C5_HandlerNeverBlocked ==
    ~SelfDeadlock

\* C6 (as claimed): no failure of the task leaves the wrapper
C6_FailureNeverPropagates ==
    pc # "raised"

C8_OncePerDay ==
    [][LoopTaskStarts /\ running /\ ~SignalSeen /\ ~hist.overran =>
        /\ TimeOfDay(now) >= schedule_time
        /\ DayOf(now) # hist.lastFireDay]_vars

\* C9 (as claimed): whatever the number of set_daily_task calls, one job is
\* pending
C9_OnePendingJob ==
    jobs # <<>> => Len(jobs) = 1

\* C10: the shutdown flag goes from unset to set at most once and is never
\* reset; it is set once a handler has returned; later signals change
\* neither the flag nor the log, which holds exactly one notice
C10_OneTransition ==
    /\ [](notices <= 1 /\ (shutdown_requested <=> notices = 1))
    /\ [][/\ (shutdown_requested => shutdown_requested')
          /\ (shutdown_requested => notices' = notices)
          /\ (Len(hstack') < Len(hstack) => shutdown_requested')]_vars

\* the handler of a later signal is in its with block, the flag already set
C10_Witness ==
    shutdown_requested /\ hstack # <<>> /\ Top = "h_locked"

\* C11: at most one invocation of the task is in progress at any time,
\* whatever immediate runs, scheduled firings, stop() calls and signals occur;
\* an invocation starts only when none is in progress
C11_OneInvocationAtATime ==
    /\ [](active <= 1)
    /\ [][active' > active => active = 0 /\ active' = 1]_vars

\* a firing is in progress while a second job is due and waits for it, stop()
\* was called and a signal was handled
C11_Witness ==
    /\ active = 1 /\ pc = "in_task" /\ pending # <<>>
    /\ ~running /\ shutdown_requested

\* C12: set_daily_task with run_immediately true (and a time of day the
\* registration accepts, see C16) invokes the task exactly once, synchronously: the invocation starts after the call's job has been
\* registered and ends before set_daily_task returns, hence before run() is
\* entered; with run_immediately false the call invokes the task zero times
C12_ImmediateRunOnce ==
    /\ [](/\ (ctx = "immediate" =>
                /\ pc \in {"safe_run", "in_task"}
                /\ hist.askedImmediate /\ jobs # <<>> /\ ~InRun)
          /\ (pc # "rejected" =>
                hist.immediateStarts =
                    IF hist.askedImmediate
                       /\ ~(ctx = "immediate" /\ pc = "safe_run")
                    THEN 1 ELSE 0))
    /\ [][/\ (ctx # "immediate" /\ ctx' = "immediate" =>
                Len(jobs') = Len(jobs) + 1 /\ active' = active)
          /\ (pc' = "run_enter" => ctx = "none" /\ active = 0)]_vars

\* set_daily_task(task, run_immediately = True) has returned, before any
\* run(): the task was invoked once
C12_Witness ==
    /\ pc = "idle" /\ ctx = "none" /\ hist.askedImmediate
    /\ hist.immediateStarts = 1 /\ ~running /\ hist.lastFireDay = -1

\* C13: the first registration, made at now for a valid time of day, sets the
\* pending trigger to today at that time of day when that instant has not yet
\* passed and to tomorrow at it otherwise; the next run time reported after
\* the registration is that trigger, never earlier than now and never more
\* than one day after now
C13_FirstTrigger ==
    [][jobs = <<>> /\ jobs' # <<>> =>
        LET n == GetNextRunTime'
            today == DayOf(now) * DayLen + schedule_time
        IN  /\ Len(jobs') = 1 /\ n = jobs'[1].next_run
            /\ n = IF now < today THEN today ELSE today + DayLen
            /\ now <= n
            /\ n <= now + DayLen]_vars

\* the only job was registered before today's configured time and nothing
\* has fired: its trigger is today
C13_Witness ==
    /\ Len(jobs) = 1 /\ hist.lastFireDay = -1 /\ pc = "idle"
    /\ now < DayOf(now) * DayLen + schedule_time
    /\ GetNextRunTime = DayOf(now) * DayLen + schedule_time

\* C14 (as claimed): the running flag is true only while run is executing:
\* it is false before run has set it and in every state after run has
\* returned, whether the loop ended by stop() or by a shutdown request
C14_RunningOnlyInRun ==
    ~InRun /\ pc # "raised" => ~running

\* an invocation of the task starts, immediate or scheduled
TaskStarts == active' > active
\* an invocation of the task ends
TaskEnds == active' < active

\* C15 (as claimed): every firing logs its start first and then exactly one
\* of completed and failed, before any other firing starts; the registration
\* record precedes the first firing of any kind
C15_LogOrder ==
    [][/\ (TaskStarts =>
            /\ hist.lastLog \in {"registered", "completed", "failed"}
            /\ hist'.lastLog = "starting")
       /\ (TaskEnds =>
            /\ hist.lastLog = "starting"
            /\ hist'.lastLog \in {"completed", "failed"})
       /\ (hist'.lastLog \in {"completed", "failed"}
              /\ hist'.lastLog # hist.lastLog => TaskEnds)]_vars

\* C16: a malformed time of day is rejected no later than registration:
\* set_daily_task raises to its caller, no job is ever registered, nothing
\* is logged as registered or started and the task is never invoked, even
\* when run_immediately is true
C16_MalformedRejected ==
    /\ [](~ValidTime(schedule_time) =>
            /\ jobs = <<>> /\ active = 0 /\ ctx = "none"
            /\ pc \notin {"safe_run", "in_task"}
            /\ hist.immediateStarts = 0 /\ hist.lastLog = "none")
    /\ [][~ValidTime(schedule_time) /\ hist'.askedImmediate # hist.askedImmediate
            => pc' = "rejected"]_vars
    /\ [](pc = "rejected" => ~ValidTime(schedule_time))

\* set_daily_task(task, run_immediately = True) has raised for the malformed
\* time: no job, no invocation
C16_Witness ==
    /\ pc = "rejected" /\ hist.askedImmediate /\ task_callback # None
    /\ jobs = <<>> /\ hist.immediateStarts = 0

\* C17: the immediate run of set_daily_task leaves the pending jobs as the
\* registration made them: from its call of _safe_run_task to its return no
\* trigger is advanced or consumed, so a trigger of today that has not passed
\* is still pending when run() polls
C17_ImmediateRunKeepsJob ==
    [][ctx = "immediate" => jobs' = jobs /\ pending' = pending]_vars

\* after the immediate run of the only registration, the scheduled firing of
\* the same day is in progress, started by run() at the trigger the
\* registration set
C17_Witness ==
    /\ hist.askedImmediate /\ hist.immediateStarts = 1
    /\ pc = "in_task" /\ ctx = "loop" /\ DayOf(now) = 0
    /\ Len(jobs) = 1 /\ jobs[1].next_run = schedule_time

\* run returns to its caller
RunReturns == InRun /\ pc' = "idle"

\* C18: run sets the running flag on entry whatever its value, so a stop()
\* made before that assignment is not remembered: a run that had such a
\* stop() is in its loop with the flag true, and run returns only with the
\* flag false, that is after a stop() made after the assignment, or with a
\* shutdown requested
C18_EarlyStopForgotten ==
    [][/\ (pc = "run_enter" /\ pc' # "run_enter" =>
            running' /\ pc' = "loop_running")
       /\ (RunReturns => ~running \/ shutdown_requested)]_vars

\* stop() was called after run was called and before run set the flag; no
\* shutdown is requested: the loop condition has held and the loop is in its
\* first iteration, about to poll
C18_Witness ==
    /\ hist.atEntry = "stop" /\ pc = "run_pending" /\ running
    /\ ~shutdown_requested /\ hstack = <<>>

\* the main thread is in the run that was called with the shutdown flag set
InRunAfterShutdown == hist.atEntry = "shut" /\ (pc = "run_enter" \/ InRun)

\* C19: the shutdown flag is never reset, so shutdown is permanent: a run
\* called after the flag was set goes from its entry to the loop condition
\* and from there only to its return, with no poll of the schedule and no
\* invocation of the task; calling run, entering it and returning from it
\* change neither the registered task nor the pending triggers, which a later
\* run polls again when the earlier one ended by stop() alone
C19_ShutdownPermanent ==
    /\ [](InRunAfterShutdown =>
            /\ shutdown_requested /\ active = 0 /\ pending = <<>>
            /\ pc \in {"run_enter", "loop_running", "ss_acquire", "ss_read"})
    /\ [][/\ (InRunAfterShutdown =>
                /\ UNCHANGED <<jobs, task_callback, active>>
                /\ hist'.pollsAfterShutdown = hist.pollsAfterShutdown)
          /\ (pc = "run_enter" \/ pc' = "run_enter" \/ RunReturns =>
                UNCHANGED <<jobs, task_callback>>)
          /\ (pc = "ss_read" /\ pc' = "run_pending" => ~shutdown_requested)
         ]_vars

\* a run called after the shutdown was recorded has returned while a job was
\* due: the job was not run and its trigger is still pending
C19_Witness ==
    /\ hist.atEntry = "shut" /\ pc = "idle" /\ shutdown_requested
    /\ Runnable(jobs, now) # <<>> /\ hist.pollsAfterShutdown = 0

====
